---- MODULE Spec2Model ----
(***************************************************************************)
(* The live-reload engine of the dev server (commands/serve.go): the       *)
(* debounced watcher with its AfterFunc timer, rebuildSite, the event      *)
(* broker's control loop and the server-sent-events handlers, together     *)
(* with the target tree written by buildTarget (commands/commands.go).     *)
(*                                                                         *)
(* Goroutines are processes with a program counter.  A send on one of the  *)
(* unbuffered channels (inSubscriptions, inEvents, a subscription's        *)
(* outEvents) is a rendezvous: the sender waits at its pc until the        *)
(* receiver's step takes the value, and that one step moves both.          *)
(* Time is counted in milliseconds and passes in steps of TickMs; the      *)
(* timer holds the time left until it expires, and the runtime fires an    *)
(* expired timer before more time passes.                                  *)
(***************************************************************************)
EXTENDS Integers, Sequences, FiniteSets, TLC

\* ---------------------------------------------------------------- bounds
\* SSE clients that may connect (each connects at most once).
NClients == 2
\* Files of the source tree, walked in lexical order 1..NFiles.
NFiles == 2
\* Filesystem events that are not chmod events, in a run without clients.
MaxEvents == 2
\* The same, in a run with clients.
MaxLiveEvents == 1
\* Layout names the site's templates may refer to: 1..NLayouts.
NLayouts == 3
\* Lines of a file given to Parse.
MaxLines == 4

\* ------------------------------------------------------ program constants
\* rebuildAfter.Reset(100 * time.Millisecond)
Delay == 100
\* The clock's granularity: two steps per debounce window.
TickMs == Delay \div 2
\* The history clock sinceEvent stops counting here ("more than Delay ago").
SinceCap == Delay + TickMs

Clients == 1 .. NClients
Files == 1 .. NFiles

\* fsnotify.Op is a set of flags; an event carries at least one.
EventOps ==
  { {"Create"}, {"Write"}, {"Remove"}, {"Rename"}, {"Chmod"}, {"Write", "Chmod"} }

\* event.Has(op)
Has(ops, op) == op \in ops

VARIABLES
  srv,              \* Serve.Run: "setup" (inside setupWatcher), "serving"
                    \* (inside ListenAndServe) or "exited" (it returned)
  runErr,           \* the error Serve.Run returned ("": none)
  event,            \* the event the consumer goroutine received last ({}: none)
  rebuildAfter,     \* the AfterFunc timer: [armed, left], left in ms
  nEvents,          \* non-chmod filesystem events the consumer has handled
  sinceEvent,       \* history: ms since the last such event (-1: none yet)
  nStarts,          \* history: rebuilds started since the last such event
  gapsOver,         \* history: events that came more than Delay after the last
  gapsAt,           \* history: events that came exactly Delay after the last
  initialFired,     \* history: the AfterFunc(0) timer fired before any event
  unbuilt,          \* history: an event that is not a bare Chmod was taken and
                    \* the timer has not fired since
  rebuilds,         \* the rebuildSite goroutines started so far, in start order
  target,           \* the target tree: file -> rebuild that wrote it (0: absent)
  lastGood,         \* history: the last rebuild whose build succeeded (0: none)
  sole,             \* history: the rebuild that cleared the target last, while
                    \* no other rebuild has written to it since (else 0)
  bpc,              \* broker loop: "select" or "send" (inside the range loop)
  msg,              \* broker loop: the event being delivered (its rebuild)
  toVisit,          \* broker loop: ids the range loop has not visited yet
  cur,              \* broker loop: id whose channel the loop is sending on
  subscribers,      \* broker.subscribers: id -> channel (named by its client)
  closed,           \* channels closed so far
  idgen,            \* broker.idgen
  hpc,              \* SSE handler of each client: its position
  hid,              \* the id subscribe() gave the handler (0: none yet)
  ctxDone,          \* the request context of the client is cancelled
  received,         \* history: events each handler took from its channel
  accepted,         \* history: events in the order the loop accepted them
  regEpoch,         \* history: Len(accepted) when the handler was registered
  acceptSubs,       \* history: the registry when the last event was accepted
  sentOn,           \* history: sends of the last accepted event, per channel
  layouts,          \* site.layouts: layout name -> Template
  templ,            \* Site.render: the template it is called with
  rpc,              \* Site.render: "idle", "start", "loop", "found", "done"
  layout,           \* Site.render: the loop variable (NoLayout: nil)
  content,          \* Site.render: the content rendered so far
  rerr,             \* Site.render: its variable err
  nSubst,           \* history: layout_templ.Render calls of this render
  file,             \* Parse: the lines of the file at path
  ppc,              \* Parse: "idle", "call" or "done"
  parsed,           \* Parse: what it returned
  src,              \* the source tree: file entry -> the lines of the file
  targetDir,        \* the target tree: its directories and its files
  tpc,              \* buildTarget: "idle", "clear", "walk", "render", "done"
  walk,             \* buildTarget: the entry the walk is at
  buildErr,         \* buildTarget: the error it returned
  written,          \* history: the writes of this build, in order
  nBuilds,          \* history: builds run on this source tree
  prior,            \* history: the target tree before the first of them
  firstTarget,      \* history: the target tree the first of them left
  httpDir,          \* HTMLFileSystem.d: path -> what http.Dir.Open gives for it
  reqName,          \* HTMLFileSystem.Open: its argument name
  opc,              \* HTMLFileSystem.Open: "idle", "call", "fallback", "done"
  opened,           \* HTMLFileSystem.Open: the file it returned (<<>>: nil)
  openErr           \* HTMLFileSystem.Open: the error it returned

serveVars == <<srv, runErr>>
watcherVars == <<event, rebuildAfter, nEvents, sinceEvent, nStarts, gapsOver, gapsAt,
                 initialFired, unbuilt>>
buildVars == <<rebuilds, target, lastGood, sole>>
brokerVars == <<bpc, msg, toVisit, cur, subscribers, closed>>
handlerVars == <<idgen, hpc, hid, ctxDone, received>>
historyVars == <<accepted, regEpoch, acceptSubs, sentOn>>
serverVars == <<serveVars, watcherVars, buildVars, brokerVars, handlerVars,
                historyVars>>
renderVars == <<layouts, templ, rpc, layout, content, rerr, nSubst>>
parseVars == <<file, ppc, parsed>>
targetVars == <<src, targetDir, tpc, walk, buildErr, written, nBuilds, prior,
                firstTarget>>
openVars == <<httpDir, reqName, opc, opened, openErr>>
libVars == <<renderVars, parseVars, targetVars, openVars>>
vars == <<serverVars, libVars>>

\* The process runs until Serve.Run returns.
Running == srv # "exited"

\* ------------------------------------------------------------ rebuildSite

\* A slip: the watches are re-added after the build.
rebuildSiteBuildFirst == <<"load", "build", "addAll", "publish">>

\* The statements of rebuildSite that act on shared state, in the order of
\* its body: addAll(watcher, config); site.Load(*config); site.Build();
\* broker.publish("rebuild").
rebuildSite == <<"addAll", "load", "build", "publish">>

\* The statement a rebuildSite call is at ("return" once it has returned).
Stmt(rb) ==
  IF rb.returned \/ rb.at > Len(rebuildSite) THEN "return"
  ELSE rebuildSite[rb.at]

\* A rebuildSite call that has not returned.
Active(rb) == Stmt(rb) # "return"

InFlight == { r \in DOMAIN rebuilds : Active(rebuilds[r]) }

\* The goroutine the timer starts: func() { rebuildSite(config, watcher, broker) }
NewRebuild ==
  [at |-> 1, idx |-> 0, returned |-> FALSE, failedAt |-> "",
   cleared |-> FALSE, wrote |-> {}, steps |-> <<>>]

\* The directories addAll adds to the watcher: the layouts, data and includes
\* directories and the directories under the source tree.
WatchDirs == {"layouts", "data", "includes", "src"}

\* watcher.Add(dir): its error, named by the directory ("": nil), when the
\* directories in fails cannot be watched.
WatcherAdd(dir, fails) == IF dir \in fails THEN dir ELSE ""

\* addAll: err := Add(LayoutsDir); err = Add(DataDir); err = Add(IncludesDir);
\* the walk drops the errors of its Adds; return err.
addAll(fails) ==
  LET err1 == WatcherAdd("layouts", fails)
      err2 == WatcherAdd("data", fails)
      err3 == WatcherAdd("includes", fails)
  IN  err3

\* addAll returned inside rebuildSite; an error of it is only printed.
AfterAddAll(rb, err) ==
  [rb EXCEPT !.at = @ + 1, !.steps = Append(@, "addAll")]

\* site.Load returned: on an error, print "load error" and return.
AfterLoad(rb, ok) ==
  IF ok THEN [rb EXCEPT !.at = @ + 1, !.steps = Append(@, "load")]
  ELSE [rb EXCEPT !.returned = TRUE, !.failedAt = "load",
                  !.steps = Append(@, "load")]

\* A slip: the previous contents are left in place.
KeepTarget(t) == t

\* buildTarget: os.RemoveAll(TARGET_DIR); os.Mkdir(TARGET_DIR)
ClearTarget(t) == [f \in Files |-> 0]

\* A slip: the error is printed and rebuildSite goes on to publish.
AfterBuildErrorGoesOn(rb) ==
  [rb EXCEPT !.at = @ + 1, !.failedAt = "build", !.steps = Append(@, "build")]

\* The build came back with an error: print "build error" and return.
AfterBuildError(rb) ==
  [rb EXCEPT !.returned = TRUE, !.failedAt = "build", !.steps = Append(@, "build")]

\* The walk callback returned nil for file rb.idx: on to the next file, and
\* after the last one the build returns nil.
AfterFileWritten(rb) ==
  IF rb.idx = NFiles
  THEN [rb EXCEPT !.at = @ + 1, !.idx = NFiles + 1, !.wrote = @ \cup {rb.idx},
                  !.steps = Append(@, "build")]
  ELSE [rb EXCEPT !.idx = @ + 1, !.wrote = @ \cup {rb.idx}]

RebuildAddAll(r) ==
  /\ Running
  /\ Stmt(rebuilds[r]) = "addAll"
  /\ \E fails \in SUBSET WatchDirs :
       rebuilds' = [rebuilds EXCEPT ![r] = AfterAddAll(@, addAll(fails))]
  /\ UNCHANGED <<libVars, serveVars, watcherVars, target, lastGood, sole, brokerVars,
                 handlerVars, historyVars>>

RebuildLoad(r) ==
  /\ Running
  /\ Stmt(rebuilds[r]) = "load"
  /\ \E ok \in BOOLEAN : rebuilds' = [rebuilds EXCEPT ![r] = AfterLoad(@, ok)]
  /\ UNCHANGED <<libVars, serveVars, watcherVars, target, lastGood, sole, brokerVars,
                 handlerVars, historyVars>>

\* The build's first step: the previous target contents are removed.
BuildClear(r) ==
  /\ Running
  /\ Stmt(rebuilds[r]) = "build"
  /\ rebuilds[r].idx = 0
  /\ target' = ClearTarget(target)
  /\ sole' = r
  /\ rebuilds' = [rebuilds EXCEPT ![r] = [@ EXCEPT !.idx = 1, !.cleared = TRUE]]
  /\ UNCHANGED <<libVars, serveVars, watcherVars, lastGood, brokerVars, handlerVars, historyVars>>

\* One file of the walk: RenderTemplate and writeToFile, either of which may
\* fail (the walk then stops with that error).
BuildFile(r) ==
  /\ Running
  /\ Stmt(rebuilds[r]) = "build"
  /\ rebuilds[r].idx \in Files
  /\ \E ok \in BOOLEAN :
       IF ok
       THEN /\ target' = [target EXCEPT ![rebuilds[r].idx] = r]
            /\ rebuilds' = [rebuilds EXCEPT ![r] = AfterFileWritten(@)]
            /\ lastGood' = IF rebuilds[r].idx = NFiles THEN r ELSE lastGood
            /\ sole' = IF sole = r THEN r ELSE 0
       ELSE /\ rebuilds' = [rebuilds EXCEPT ![r] = AfterBuildError(@)]
            /\ UNCHANGED <<target, lastGood, sole>>
  /\ UNCHANGED <<libVars, serveVars, watcherVars, brokerVars, handlerVars, historyVars>>

\* ---------------------------------------------------------------- watcher

\* A slip: a pending timer is left as it is.
StopAndResetKeep(t) == IF t.armed THEN t ELSE [armed |-> TRUE, left |-> Delay]

\* rebuildAfter.Stop(); rebuildAfter.Reset(100 * time.Millisecond)
StopAndReset(t) == [armed |-> TRUE, left |-> Delay]

\* The consumer goroutine takes one event from watcher.Events.
FsEvent(ops) ==
  /\ Running
  /\ event' = ops
  /\ unbuilt' = (unbuilt \/ ops # {"Chmod"})
  /\ IF Has(ops, "Chmod")
     THEN \* chmod events are noisy, ignore them
          UNCHANGED <<rebuildAfter, nEvents, sinceEvent, nStarts, gapsOver, gapsAt>>
     ELSE /\ nEvents' = nEvents + 1
          /\ rebuildAfter' = StopAndReset(rebuildAfter)
          /\ sinceEvent' = 0
          /\ nStarts' = 0
          /\ gapsOver' = IF sinceEvent > Delay THEN gapsOver + 1 ELSE gapsOver
          /\ gapsAt' = IF sinceEvent = Delay THEN gapsAt + 1 ELSE gapsAt
  /\ UNCHANGED <<libVars, serveVars, initialFired, buildVars, brokerVars, handlerVars,
                 historyVars>>

\* The timer expires: the runtime runs its function in a goroutine of its own.
TimerFire ==
  /\ Running
  /\ rebuildAfter.armed
  /\ rebuildAfter.left = 0
  /\ rebuildAfter' = [armed |-> FALSE, left |-> 0]
  /\ rebuilds' = Append(rebuilds, NewRebuild)
  /\ nStarts' = nStarts + 1
  /\ initialFired' = (initialFired \/ nEvents = 0)
  /\ unbuilt' = FALSE
  /\ UNCHANGED <<libVars, serveVars, event, nEvents, sinceEvent, gapsOver, gapsAt, target,
                 lastGood, sole, brokerVars, handlerVars, historyVars>>

\* TickMs pass, unless the timer is due.
Tick ==
  /\ Running
  /\ ~(rebuildAfter.armed /\ rebuildAfter.left = 0)
  /\ rebuildAfter' =
       IF rebuildAfter.armed
       THEN [rebuildAfter EXCEPT !.left = IF @ > TickMs THEN @ - TickMs ELSE 0]
       ELSE rebuildAfter
  /\ sinceEvent' =
       IF sinceEvent < 0 THEN sinceEvent
       ELSE IF sinceEvent + TickMs > SinceCap THEN SinceCap ELSE sinceEvent + TickMs
  /\ UNCHANGED <<libVars, serveVars, event, nEvents, nStarts, gapsOver, gapsAt,
                 initialFired, unbuilt, buildVars, brokerVars, handlerVars,
                 historyVars>>

\* ----------------------------------------------------------------- broker

\* A slip: messages are taken while the range loop is still sending.
BrokerAlwaysReceives == TRUE

\* The loop is at its select and takes whichever message is offered.
BrokerAtSelect == bpc = "select"

\* for _, outEvents := range broker.subscribers: every entry once, in an
\* order the language leaves open.
RangeOver(subs) == DOMAIN subs

\* A slip: the range loop is left after its first send.
RestOfNone(ids, id) == {}

\* The range loop after one more entry was sent to.
RestOf(ids, id) == ids \ {id}

\* case msg := <-broker.inSubscriptions, msg.outEvents != nil
\* (the other end of the send inside subscribe(), which now returns).
BrokerSubscribe(c) ==
  /\ Running
  /\ BrokerAtSelect
  /\ hpc[c] = "subscribe"
  /\ subscribers' = (hid[c] :> c) @@ subscribers
  /\ hpc' = [hpc EXCEPT ![c] = "select"]
  /\ regEpoch' = [regEpoch EXCEPT ![c] = Len(accepted)]
  /\ UNCHANGED <<libVars, serveVars, watcherVars, buildVars, bpc, msg, toVisit, cur, closed, idgen,
                 hid, ctxDone, received, accepted, acceptSubs, sentOn>>

\* case msg := <-broker.inSubscriptions, msg.outEvents == nil:
\* close(broker.subscribers[msg.id]); delete(broker.subscribers, msg.id)
\* (the other end of the send inside unsubscribe(); the handler returns).
BrokerUnsubscribe(c) ==
  /\ Running
  /\ BrokerAtSelect
  /\ hpc[c] = "unsubscribe"
  /\ IF hid[c] \in DOMAIN subscribers /\ subscribers[hid[c]] \notin closed
     THEN /\ closed' = closed \cup {subscribers[hid[c]]}
          /\ subscribers' = [i \in DOMAIN subscribers \ {hid[c]} |-> subscribers[i]]
          /\ bpc' = bpc
     ELSE \* close of a nil or closed channel panics
          /\ bpc' = "panic"
          /\ UNCHANGED <<closed, subscribers>>
  /\ hpc' = [hpc EXCEPT ![c] = "done"]
  /\ UNCHANGED <<libVars, serveVars, watcherVars, buildVars, msg, toVisit, cur, idgen, hid, ctxDone,
                 received, historyVars>>

\* case msg := <-broker.inEvents (the other end of the send inside publish(),
\* after which rebuildSite prints "done" and returns); the range loop starts.
BrokerAccept(r) ==
  /\ Running
  /\ BrokerAtSelect
  /\ Stmt(rebuilds[r]) = "publish"
  /\ rebuilds' = [rebuilds EXCEPT ![r] = [@ EXCEPT !.at = @ + 1,
                                                   !.steps = Append(@, "publish")]]
  /\ msg' = r
  /\ accepted' = Append(accepted, r)
  /\ acceptSubs' = subscribers
  /\ sentOn' = [c \in Clients |-> 0]
  /\ IF RangeOver(subscribers) = {}
     THEN /\ bpc' = "select"
          /\ toVisit' = {}
          /\ cur' = 0
     ELSE /\ bpc' = "send"
          /\ toVisit' = RangeOver(subscribers)
          /\ cur' \in RangeOver(subscribers)
  /\ UNCHANGED <<libVars, serveVars, watcherVars, target, lastGood, sole, subscribers, closed,
                 handlerVars, regEpoch>>

\* outEvents <- msg meets the handler's case <-events.
BrokerSend(c) ==
  /\ Running
  /\ bpc = "send"
  /\ cur \in DOMAIN subscribers
  /\ subscribers[cur] = c
  /\ c \notin closed
  /\ hpc[c] = "select"
  /\ hpc' = [hpc EXCEPT ![c] = "write"]
  /\ received' = [received EXCEPT ![c] = Append(@, msg)]
  /\ sentOn' = [sentOn EXCEPT ![c] = @ + 1]
  /\ toVisit' = RestOf(toVisit, cur)
  /\ IF toVisit' = {}
     THEN bpc' = "select" /\ cur' = 0
     ELSE bpc' = "send" /\ cur' \in toVisit'
  /\ UNCHANGED <<libVars, serveVars, watcherVars, buildVars, msg, subscribers, closed, idgen, hid,
                 ctxDone, accepted, regEpoch, acceptSubs>>

\* ------------------------------------------------------------ SSE handler

\* A client connects: the handler sets its headers and calls subscribe(),
\* which draws an id and offers the Subscription to the loop.
Connect(c) ==
  /\ Running
  /\ srv = "serving"
  /\ hpc[c] = "idle"
  /\ idgen' = idgen + 1
  /\ hid' = [hid EXCEPT ![c] = idgen + 1]
  /\ hpc' = [hpc EXCEPT ![c] = "subscribe"]
  /\ UNCHANGED <<libVars, serveVars, watcherVars, buildVars, brokerVars, ctxDone, received, historyVars>>

\* The client goes away: req.Context() is cancelled.
CtxCancel(c) ==
  /\ Running
  /\ hpc[c] \notin {"idle", "done"}
  /\ ~ctxDone[c]
  /\ ctxDone' = [ctxDone EXCEPT ![c] = TRUE]
  /\ UNCHANGED <<libVars, serveVars, watcherVars, buildVars, brokerVars, idgen, hpc, hid, received,
                 historyVars>>

\* fmt.Fprint(res, "data\n\n"); Flush(); back to the select.
HandlerWrite(c) ==
  /\ Running
  /\ hpc[c] = "write"
  /\ hpc' = [hpc EXCEPT ![c] = "select"]
  /\ UNCHANGED <<libVars, serveVars, watcherVars, buildVars, brokerVars, idgen, hid, ctxDone, received,
                 historyVars>>

\* case <-req.Context().Done(): broker.unsubscribe(id) offers its message.
HandlerCtxDone(c) ==
  /\ Running
  /\ hpc[c] = "select"
  /\ ctxDone[c]
  /\ hpc' = [hpc EXCEPT ![c] = "unsubscribe"]
  /\ UNCHANGED <<libVars, serveVars, watcherVars, buildVars, brokerVars, idgen, hid, ctxDone, received,
                 historyVars>>

\* ------------------------------------------------------------------ Serve

\* Serve.Run after setupWatcher returned (watcher, broker, err): on an error
\* it returns it (and the process ends); else it goes on to ListenAndServe.
AfterSetupWatcher(err) ==
  IF err # "" THEN [srv |-> "exited", runErr |-> err]
  ELSE [srv |-> "serving", runErr |-> ""]

\* The last statement of setupWatcher, err = addAll(watcher, config), and the
\* caller's check of it.  The timer and the consumer goroutine run already.
SetupAddAll ==
  /\ srv = "setup"
  /\ \E fails \in SUBSET WatchDirs :
       /\ srv' = AfterSetupWatcher(addAll(fails)).srv
       /\ runErr' = AfterSetupWatcher(addAll(fails)).runErr
  /\ UNCHANGED <<libVars, watcherVars, buildVars, brokerVars, handlerVars,
                 historyVars>>

\* ------------------------------------------------------------ Site.render

LayoutNames == 1 .. NLayouts

\* templ.Metadata["layout"] of a template without a layout key.
NoLayout == 0

\* A context without the bindings "layout" and "content".
NoBinding == [layout |-> -1]

\* An error of render: nil, the error of a Render call (named here by the
\* template rendered), or the layout-not-found error with the layout's name.
NoErr == [kind |-> "nil", name |-> 0]
RenderError(name) == [kind |-> "render", name |-> name]

\* A Template: its Metadata (of which render reads the layout key), its
\* compiled body and whether executing that body succeeds.
Template(metadata, body, ok) ==
  [Metadata |-> metadata, liquidTemplate |-> body, ok |-> ok]

\* The templates render is tried on: any layout key, one body.
Templates ==
  { Template([layout |-> n], <<>>, ok) : n \in {NoLayout} \cup LayoutNames,
                                         ok \in BOOLEAN }

\* Rendered content is the list of the renderings it went through, innermost
\* first: each names the template rendered and the "layout" binding it was
\* rendered with.  Content grows with every substitution; the model keeps at
\* most MaxContent renderings of it.
MaxContent == NLayouts + 2

\* A slip: the layout is rendered without the content rendered so far.
RenderDropsContent(name, t, ctx) ==
  IF t.ok
  THEN [content |-> <<[by |-> name, body |-> t.liquidTemplate,
                       layout |-> ctx.layout]>>,
        err |-> NoErr]
  ELSE [content |-> <<>>, err |-> RenderError(name)]

\* Template.Render(ctx) of the template called name: the content it returns
\* is made of its own body, the binding ctx["layout"] and the content bound to
\* ctx["content"]; a failing body gives an error and no content.
Render(name, t, ctx) ==
  IF t.ok
  THEN [content |->
          IF Len(ctx.content) < MaxContent
          THEN Append(ctx.content, [by |-> name, body |-> t.liquidTemplate,
                                    layout |-> ctx.layout])
          ELSE ctx.content,
        err |-> NoErr]
  ELSE [content |-> <<>>, err |-> RenderError(name)]

\* fmt.Errorf("layout '%s' not found", layout)
LayoutNotFound(name) == [kind |-> "layout not found", name |-> name]

\* A slip: the loop goes on with the layout it has just rendered.
SameLayout(name, t) == name

\* layout = layout_templ.Metadata["layout"]
NextLayout(name, t) == t.Metadata.layout

\* ctx := site.baseContext(); ctx["page"] = templ.Metadata;
\* content, err := templ.Render(ctx); if err != nil { return "", err };
\* layout := templ.Metadata["layout"]
RenderStart ==
  /\ rpc = "start"
  /\ LET out == Render(0, templ, [layout |-> NoBinding, content |-> <<>>])
     IN IF out.err # NoErr
        THEN /\ rpc' = "done"
             /\ content' = <<>>
             /\ rerr' = out.err
             /\ layout' = layout
        ELSE /\ rpc' = "loop"
             /\ content' = out.content
             /\ rerr' = NoErr
             /\ layout' = templ.Metadata.layout
  /\ UNCHANGED <<serverVars, openVars, parseVars, targetVars, layouts, templ, nSubst>>

\* A turn of `for layout != nil && err == nil` begins: the layout is looked up
\* in site.layouts, and when it is not there render returns the not-found
\* error.
RenderLookup ==
  /\ rpc = "loop"
  /\ layout # NoLayout /\ rerr = NoErr
  /\ IF layout \in DOMAIN layouts
     THEN /\ rpc' = "found"
          /\ UNCHANGED <<content, rerr>>
     ELSE /\ content' = <<>>
          /\ rerr' = LayoutNotFound(layout)
          /\ rpc' = "done"
  /\ UNCHANGED <<serverVars, openVars, parseVars, targetVars, layouts, templ,
                 layout, nSubst>>

\* The rest of the turn: the layout is rendered around the content and the
\* loop goes on with the layout it names.
RenderLayout ==
  /\ rpc = "found"
  /\ LET layout_templ == layouts[layout]
         out == Render(layout, layout_templ,
                       [layout |-> layout_templ.Metadata, content |-> content])
     IN /\ content' = out.content
        /\ rerr' = out.err
        /\ layout' = NextLayout(layout, layout_templ)
        /\ rpc' = "loop"
        /\ nSubst' = IF nSubst < MaxContent THEN nSubst + 1 ELSE nSubst
  /\ UNCHANGED <<serverVars, openVars, parseVars, targetVars, layouts, templ>>

\* The loop condition fails: return content, err
RenderReturn ==
  /\ rpc = "loop"
  /\ ~(layout # NoLayout /\ rerr = NoErr)
  /\ rpc' = "done"
  /\ UNCHANGED <<serverVars, openVars, parseVars, targetVars, layouts, templ, layout, content, rerr, nSubst>>

\* No render is under way.
RenderIdle ==
  /\ layouts = <<>>
  /\ templ = Template([layout |-> NoLayout], <<>>, TRUE)
  /\ rpc = "idle"
  /\ layout = NoLayout
  /\ content = <<>>
  /\ rerr = NoErr
  /\ nSubst = 0

\* ------------------------------------------------------------------ Parse

\* const FM_SEPARATOR = "---"
FM_SEPARATOR == "---"

\* The lines a file is made of here (what the scanner's Text() returns for
\* them): the separator, bare and with blanks around it, a line that only
\* starts with it, a front matter line, a line that is not yaml, an empty
\* line and a line that is not liquid.
LineSet == {"---", " --- ", "----", "layout: 1", ": [", "", "{{"}

\* A slip: lines are compared as they are.
TrimSpaceNone(line) == line

\* strings.TrimSpace(line)
TrimSpace(line) == IF line = " --- " THEN "---" ELSE line

\* The bytes of a line, one token per line that is not empty.
LineBytes(line) == IF line = "" THEN <<>> ELSE <<line>>

\* bytes.TrimSuffix(content, []byte("\n"))
TrimSuffix(bytes) ==
  IF bytes # <<>> /\ bytes[Len(bytes)] = "\n"
  THEN SubSeq(bytes, 1, Len(bytes) - 1)
  ELSE bytes

\* The loop `for scanner.Scan()` from line i on: each line, with '\n'
\* appended, goes to liquidContent once the front matter is closed and to
\* yamlContent before that, but for the closing separator, which is dropped.
RECURSIVE ScanLoop(_, _, _, _, _)
ScanLoop(lines, i, yamlClosed, yamlContent, liquidContent) ==
  IF i > Len(lines)
  THEN [yamlClosed |-> yamlClosed, yamlContent |-> yamlContent,
        liquidContent |-> liquidContent]
  ELSE LET line == LineBytes(lines[i]) \o <<"\n">> IN
       IF yamlClosed
       THEN ScanLoop(lines, i + 1, yamlClosed, yamlContent, liquidContent \o line)
       ELSE IF TrimSpace(lines[i]) = FM_SEPARATOR
            THEN ScanLoop(lines, i + 1, TRUE, yamlContent, liquidContent)
            ELSE ScanLoop(lines, i + 1, yamlClosed, yamlContent \o line, liquidContent)

\* yaml.Unmarshal(yamlContent, &metadata): its error, for text that is not
\* yaml or defines a key twice.
YamlError(yamlContent) ==
  \/ \E k \in DOMAIN yamlContent : yamlContent[k] \in {": [", "{{", "----"}
  \/ \E k, m \in DOMAIN yamlContent :
       k # m /\ yamlContent[k] = "layout: 1" /\ yamlContent[m] = "layout: 1"

\* The metadata yaml.Unmarshal fills in (the layout key is what render reads).
YamlMetadata(yamlContent) ==
  [layout |-> IF \E k \in DOMAIN yamlContent : yamlContent[k] = "layout: 1"
              THEN 1 ELSE NoLayout]

\* engine.ParseTemplateAndCache(liquidContent, path, 0): its error.
LiquidError(liquidContent) ==
  \E k \in DOMAIN liquidContent : liquidContent[k] = "{{"

\* What Parse returns: (nil, nil), (nil, err) or (&templ, nil).
NoTemplate == [templ |-> FALSE, err |-> "", Metadata |-> [layout |-> NoLayout],
               yamlContent |-> <<>>, liquidContent |-> <<>>]
ParseFails(err) == [NoTemplate EXCEPT !.err = err]

\* Parse(engine, path) of a file with these lines.
Parse(lines) ==
  LET \* scanner.Scan(); line := scanner.Text()
      line == IF lines = <<>> THEN "" ELSE lines[1]
  IN
  IF TrimSpace(line) # FM_SEPARATOR THEN NoTemplate
  ELSE LET scan == ScanLoop(lines, 2, FALSE, <<>>, <<>>)
           liquidContent == TrimSuffix(scan.liquidContent)
       IN
       IF ~scan.yamlClosed THEN ParseFails("front matter not closed")
       ELSE IF Len(scan.yamlContent) # 0 /\ YamlError(scan.yamlContent)
            THEN ParseFails("invalid yaml format")
       ELSE IF LiquidError(liquidContent) THEN ParseFails("liquid")
       ELSE [templ |-> TRUE, err |-> "",
             Metadata |-> IF Len(scan.yamlContent) # 0
                          THEN YamlMetadata(scan.yamlContent)
                          ELSE [layout |-> NoLayout],
             yamlContent |-> scan.yamlContent, liquidContent |-> liquidContent]

ParseCall ==
  /\ ppc = "call"
  /\ parsed' = Parse(file)
  /\ ppc' = "done"
  /\ UNCHANGED <<serverVars, openVars, renderVars, targetVars, file>>

\* No Parse is under way.
ParseIdle ==
  /\ file = <<>>
  /\ ppc = "idle"
  /\ parsed = NoTemplate

\* ------------------------------------------------------------ buildTarget

\* A path relative to the source or the target directory: its directory, the
\* name without its extension, and the extension (filepath.Ext).
Path(dir, stem, ext) == [dir |-> dir, stem |-> stem, ext |-> ext]

\* The entries filepath.WalkDir(SRC_DIR) may come by, in its lexical order
\* (a directory before the entries in it).
Entries ==
  << [isDir |-> TRUE,  path |-> Path(".", "", "")],
     [isDir |-> FALSE, path |-> Path(".", "a", ".html")],
     [isDir |-> FALSE, path |-> Path(".", "a", ".md")],
     [isDir |-> FALSE, path |-> Path(".", "a", ".org")],
     [isDir |-> TRUE,  path |-> Path("sub", "", "")],
     [isDir |-> FALSE, path |-> Path("sub", "b", ".css")] >>

FileEntries == { k \in DOMAIN Entries : ~Entries[k].isDir }

\* What a source file may hold: a static file, an empty file, a template
\* without a layout, a template with layout 1, and a file whose front matter
\* is not closed.
Contents ==
  { <<"----">>, <<>>, <<"---", "---", "----">>,
    <<" --- ", "layout: 1", "---">>, <<"---">> }

\* The entry is in the source tree (a directory is when a file in it is).
Present(k) ==
  IF Entries[k].isDir
  THEN \/ Entries[k].path.dir = "."
       \/ \E f \in DOMAIN src : Entries[f].path.dir = Entries[k].path.dir
  ELSE k \in DOMAIN src

\* The first entry of the source tree at or after entry k (0: none is left).
NextEntry(k) ==
  LET rest == { e \in DOMAIN Entries : e >= k /\ Present(e) }
  IN  IF rest = {} THEN 0 ELSE CHOOSE e \in rest : \A d \in rest : e <= d

\* What a file of the target holds: bytes copied from a source file, or
\* content that render returned.
Copied(bytes) == [rendered |-> FALSE, bytes |-> bytes, frames |-> <<>>]
Rendered(frames) == [rendered |-> TRUE, bytes |-> <<>>, frames |-> frames]

\* A slip: the previous target directory is left as it is.
RemoveAllSkipped(t) == t

\* os.RemoveAll(TARGET_DIR); os.Mkdir(TARGET_DIR, FILE_RW_MODE)
RemoveAllMkdir(t) == [dirs |-> {"."}, files |-> [p \in {} |-> Copied(<<>>)]]

\* os.MkdirAll(targetPath, FILE_RW_MODE)
MkdirAll(t, dir) == [t EXCEPT !.dirs = @ \cup {dir}]

\* Template.TargetExt, of a template with this source extension.
TargetExt(ext) == IF ext = ".org" \/ ext = ".md" THEN ".html" ELSE ext

\* A slip: the extension is remapped whether a template was found or not.
TargetPathRemapped(path, templateFound, extension) ==
  [path EXCEPT !.ext = TargetExt(path.ext)]

\* targetPath := filepath.Join(TARGET_DIR, subpath), and for a template
\* strings.TrimSuffix(targetPath, filepath.Ext(targetPath)) + extension
TargetPath(path, templateFound, extension) ==
  IF templateFound THEN [path EXCEPT !.ext = extension] ELSE path

\* writeToFile(targetPath, source) when it succeeds: os.Create makes the file
\* or truncates the one that is there, io.Copy fills it.
WriteToFile(t, targetPath, data) ==
  [t EXCEPT !.files = [p \in DOMAIN t.files \cup {targetPath} |->
                         IF p = targetPath THEN data ELSE t.files[p]]]

\* os.Create can succeed only in a directory that exists.
WriteOutcomes(t, targetPath) ==
  IF targetPath.dir \in t.dirs THEN BOOLEAN ELSE {FALSE}

\* A slip: the error of RenderTemplate is not looked at.
RenderFailedIgnored(e) == FALSE

\* templateFound, extension, content, err := site.RenderTemplate(path);
\* if err != nil
RenderFailed(e) == e # NoErr

\* The walk callback returned err: WalkDir stops and buildTarget returns it.
BuildReturns(e) ==
  /\ tpc' = "done"
  /\ buildErr' = e
  /\ UNCHANGED <<src, targetDir, walk, written, nBuilds, prior, firstTarget>>

\* The walk callback wrote data at targetPath for entry k, or failed to.
BuildWrites(k, targetPath, data) ==
  \E ok \in WriteOutcomes(targetDir, targetPath) :
    IF ok
    THEN /\ targetDir' = WriteToFile(targetDir, targetPath, data)
         /\ written' = Append(written, [entry |-> k, path |-> targetPath,
                                        data |-> data])
         /\ walk' = k + 1
         /\ tpc' = "walk"
         /\ UNCHANGED <<src, buildErr, nBuilds, prior, firstTarget>>
    ELSE BuildReturns([kind |-> "write", name |-> 0])

\* clear previous target contents
TargetClear ==
  /\ tpc = "clear"
  /\ targetDir' = RemoveAllMkdir(targetDir)
  /\ tpc' = "walk"
  /\ walk' = 1
  /\ UNCHANGED <<serverVars, openVars, renderVars, parseVars, src, buildErr, written,
                 nBuilds, prior, firstTarget>>

\* site.RenderTemplate(path) up to its call of render: the file is parsed; a
\* file that is no template is reported as not found, a parse error returned.
RenderTemplateParse(lines) == Parse(lines)

\* The walk callback for the next entry.  A directory is made at the target.
\* A file goes through site.RenderTemplate: its error ends the build, a file
\* that is no template is copied, a template is handed to render.
WalkEntry ==
  /\ tpc = "walk"
  /\ LET k == NextEntry(walk) IN
     IF k = 0
     THEN /\ BuildReturns(NoErr)
          /\ UNCHANGED renderVars
     ELSE IF Entries[k].isDir
     THEN /\ targetDir' = MkdirAll(targetDir, Entries[k].path.dir)
          /\ walk' = k + 1
          /\ UNCHANGED <<renderVars, src, tpc, buildErr, written, nBuilds,
                         prior, firstTarget>>
     ELSE LET p == RenderTemplateParse(src[k]) IN
          IF p.err # ""
          THEN /\ BuildReturns([kind |-> p.err, name |-> 0])
               /\ UNCHANGED renderVars
          ELSE IF p.templ
          THEN /\ templ' = Template(p.Metadata, p.liquidContent, TRUE)
               /\ rpc' = "start"
               /\ layout' = NoLayout
               /\ content' = <<>>
               /\ rerr' = NoErr
               /\ nSubst' = 0
               /\ tpc' = "render"
               /\ walk' = k
               /\ UNCHANGED <<layouts, src, targetDir, buildErr, written,
                              nBuilds, prior, firstTarget>>
          ELSE /\ BuildWrites(k, TargetPath(Entries[k].path, FALSE, ""),
                              Copied(src[k]))
               /\ UNCHANGED renderVars
  /\ UNCHANGED <<serverVars, openVars, parseVars>>

\* render returned inside site.RenderTemplate: its error ends the build, its
\* content is written at the target path with the template's target extension.
WalkAfterRender ==
  /\ tpc = "render"
  /\ rpc = "done"
  /\ rpc' = "idle"
  /\ IF RenderFailed(rerr)
     THEN BuildReturns(rerr)
     ELSE BuildWrites(walk,
                      TargetPath(Entries[walk].path, TRUE,
                                 TargetExt(Entries[walk].path.ext)),
                      Rendered(content))
  /\ UNCHANGED <<serverVars, openVars, parseVars, layouts, templ, layout, content, rerr,
                 nSubst>>

\* The source tree is built once more, unchanged.
BuildAgain ==
  /\ tpc = "done"
  /\ buildErr = NoErr
  /\ nBuilds = 1
  /\ nBuilds' = 2
  /\ firstTarget' = targetDir
  /\ written' = <<>>
  /\ tpc' = "clear"
  /\ UNCHANGED <<serverVars, openVars, renderVars, parseVars, src, targetDir, walk, buildErr,
                 prior>>

\* No target tree yet.
EmptyTarget == [dirs |-> {}, files |-> [p \in {} |-> Copied(<<>>)]]

\* No build is under way.
BuildIdle ==
  /\ src = [k \in {} |-> <<>>]
  /\ targetDir = EmptyTarget
  /\ tpc = "idle"
  /\ walk = 0
  /\ buildErr = NoErr
  /\ written = <<>>
  /\ nBuilds = 0
  /\ prior = EmptyTarget
  /\ firstTarget = EmptyTarget

\* ------------------------------------------------- HTMLFileSystem.Open

\* The names a request may ask for, and the paths of the served directory a
\* file may be at: a name is a stem followed by ".html" suffixes.
Stems == {"index", "post"}
OpenNames == { <<st>> : st \in Stems } \cup { <<st, ".html">> : st \in Stems }
DirPaths == OpenNames \cup { <<st, ".html", ".html">> : st \in Stems }

\* What http.Dir.Open gives for a path: the file, an error os.IsNotExist
\* holds of, or another error.
OpenOutcomes == {"file", "not exist", "permission"}

\* name + ".html"
WithHtml(n) == Append(n, ".html")

\* A slip: the fallback is tried after any error.
IsNotExistAny(e) == e # "nil"

\* os.IsNotExist(err)
IsNotExist(e) == e = "not exist"

\* The error of d.d.Open(path)
DirOpenErr(path) == IF httpDir[path] = "file" THEN "nil" ELSE httpDir[path]

\* f, err := d.d.Open(name); if os.IsNotExist(err) { ... }; return f, err
OpenExact ==
  /\ opc = "call"
  /\ opened' = IF DirOpenErr(reqName) = "nil" THEN reqName ELSE <<>>
  /\ openErr' = DirOpenErr(reqName)
  /\ opc' = IF IsNotExist(DirOpenErr(reqName)) THEN "fallback" ELSE "done"
  /\ UNCHANGED <<serverVars, renderVars, parseVars, targetVars, httpDir, reqName>>

\* if f, err := d.d.Open(name + ".html"); err == nil { return f, nil }
\* and else return f, err with the f and err of the first Open.
OpenFallback ==
  /\ opc = "fallback"
  /\ IF DirOpenErr(WithHtml(reqName)) = "nil"
     THEN /\ opened' = WithHtml(reqName)
          /\ openErr' = "nil"
     ELSE UNCHANGED <<opened, openErr>>
  /\ opc' = "done"
  /\ UNCHANGED <<serverVars, renderVars, parseVars, targetVars, httpDir, reqName>>

\* No Open is under way.
OpenIdle ==
  /\ httpDir = [p \in DirPaths |-> "not exist"]
  /\ reqName = <<>>
  /\ opc = "idle"
  /\ opened = <<>>
  /\ openErr = "nil"

\* ------------------------------------------------------------ specification

ServerInit ==
  /\ srv = "setup"
  /\ runErr = ""
  /\ event = {}
  /\ unbuilt = FALSE
  /\ rebuildAfter = [armed |-> TRUE, left |-> 0]      \* time.AfterFunc(0, ...)
  /\ nEvents = 0
  /\ sinceEvent = -1
  /\ nStarts = 0
  /\ gapsOver = 0
  /\ gapsAt = 0
  /\ initialFired = FALSE
  /\ rebuilds = <<>>
  /\ target = [f \in Files |-> 0]
  /\ lastGood = 0
  /\ sole = 0
  /\ bpc = "select"
  /\ msg = 0
  /\ toVisit = {}
  /\ cur = 0
  /\ subscribers = <<>>
  /\ closed = {}
  /\ idgen = 0
  /\ hpc = [c \in Clients |-> "idle"]
  /\ hid = [c \in Clients |-> 0]
  /\ ctxDone = [c \in Clients |-> FALSE]
  /\ received = [c \in Clients |-> <<>>]
  /\ accepted = <<>>
  /\ regEpoch = [c \in Clients |-> 0]
  /\ acceptSubs = <<>>
  /\ sentOn = [c \in Clients |-> 0]

\* The dev server right after setupWatcher started the timer and the consumer.
Init == ServerInit /\ RenderIdle /\ ParseIdle /\ BuildIdle /\ OpenIdle

WatcherStep(maxEvents) ==
  \/ \E ops \in EventOps : nEvents < maxEvents /\ FsEvent(ops)
  \/ TimerFire
  \/ Tick

RebuildStep ==
  \/ \E r \in DOMAIN rebuilds : RebuildAddAll(r)
  \/ \E r \in DOMAIN rebuilds : RebuildLoad(r)
  \/ \E r \in DOMAIN rebuilds : BuildClear(r)
  \/ \E r \in DOMAIN rebuilds : BuildFile(r)

BrokerStep ==
  \/ \E r \in DOMAIN rebuilds : BrokerAccept(r)
  \/ \E c \in Clients : BrokerSubscribe(c)
  \/ \E c \in Clients : BrokerUnsubscribe(c)
  \/ \E c \in Clients : BrokerSend(c)

HandlerStep ==
  \/ \E c \in Clients : HandlerWrite(c)
  \/ \E c \in Clients : HandlerCtxDone(c)

ClientStep ==
  \/ \E c \in Clients : Connect(c)
  \/ \E c \in Clients : CtxCancel(c)

\* The dev server with its clients.
Next ==
  \/ SetupAddAll
  \/ WatcherStep(MaxLiveEvents)
  \/ RebuildStep
  \/ BrokerStep
  \/ HandlerStep
  \/ ClientStep

Spec == Init /\ [][Next]_vars

\* The dev server while no client connects.
NextWatcher ==
  \/ SetupAddAll
  \/ WatcherStep(MaxEvents)
  \/ RebuildStep
  \/ \E r \in DOMAIN rebuilds : BrokerAccept(r)

SpecWatcher == Init /\ [][NextWatcher]_vars

\* Every goroutine that can take a step eventually takes one; the clients
\* and the filesystem owe nothing.
FairSpec ==
  /\ Spec
  /\ WF_vars(TimerFire)
  /\ WF_vars(RebuildStep)
  /\ WF_vars(BrokerStep)
  /\ WF_vars(HandlerStep)

\* The dev server without clients, where time passes, a timer that is due
\* fires and the rebuild goroutines keep running.
FairSpecWatcher ==
  /\ SpecWatcher
  /\ WF_vars(Tick)
  /\ WF_vars(TimerFire)
  /\ WF_vars(RebuildStep)

\* Site.render called with any template over any layouts mapping.
InitRender ==
  /\ ServerInit
  /\ OpenIdle
  /\ ParseIdle
  /\ BuildIdle
  /\ layouts \in UNION { [names -> Templates] : names \in SUBSET LayoutNames }
  /\ templ \in Templates
  /\ rpc = "start"
  /\ layout = NoLayout
  /\ content = <<>>
  /\ rerr = NoErr
  /\ nSubst = 0

NextRender ==
  \/ RenderStart
  \/ RenderLookup
  \/ RenderLayout
  \/ RenderReturn

SpecRender == InitRender /\ [][NextRender]_vars

\* The goroutine that called render keeps running.
FairSpecRender == SpecRender /\ WF_vars(NextRender)

\* Parse called on any file of at most MaxLines lines.
InitParse ==
  /\ ServerInit
  /\ OpenIdle
  /\ RenderIdle
  /\ BuildIdle
  /\ file \in UNION { [1 .. n -> LineSet] : n \in 0 .. MaxLines }
  /\ ppc = "call"
  /\ parsed = NoTemplate

NextParse == ParseCall

SpecParse == InitParse /\ [][NextParse]_vars

\* The layouts mappings a build is tried with: none, a layout 1 without a
\* parent, one whose parent is missing, one that fails to render, and one
\* that names itself.
BuildLayouts ==
  { [n \in {} |-> Template([layout |-> NoLayout], <<>>, TRUE)],
    [n \in {1} |-> Template([layout |-> NoLayout], <<>>, TRUE)],
    [n \in {1} |-> Template([layout |-> 2], <<>>, TRUE)],
    [n \in {1} |-> Template([layout |-> NoLayout], <<>>, FALSE)],
    [n \in {1} |-> Template([layout |-> 1], <<>>, TRUE)] }

\* What the target directory may hold before a build: nothing, or files and
\* a directory earlier builds left there.
PriorTargets ==
  { EmptyTarget,
    [dirs |-> {".", "old"},
     files |-> [p \in {Path(".", "a", ".html"), Path("old", "z", ".html")} |->
                  Copied(<<"{{">>)]],
    [dirs |-> {".", "sub"},
     files |-> [p \in {Path("sub", "b", ".css"), Path(".", "a", ".md")} |->
                  Rendered(<<>>)]] }

\* buildTarget called on any source tree, with any of the layouts mappings,
\* over any of the prior target directories.
InitBuild ==
  /\ ServerInit
  /\ OpenIdle
  /\ ParseIdle
  /\ layouts \in BuildLayouts
  /\ templ = Template([layout |-> NoLayout], <<>>, TRUE)
  /\ rpc = "idle"
  /\ layout = NoLayout
  /\ content = <<>>
  /\ rerr = NoErr
  /\ nSubst = 0
  /\ src \in UNION { [ks -> Contents] : ks \in SUBSET FileEntries }
  /\ targetDir \in PriorTargets
  /\ tpc = "clear"
  /\ walk = 0
  /\ buildErr = NoErr
  /\ written = <<>>
  /\ nBuilds = 1
  /\ prior = targetDir
  /\ firstTarget = EmptyTarget

NextBuild ==
  \/ TargetClear
  \/ WalkEntry
  \/ WalkAfterRender
  \/ BuildAgain
  \/ RenderStart
  \/ RenderLookup
  \/ RenderLayout
  \/ RenderReturn

SpecBuild == InitBuild /\ [][NextBuild]_vars

\* HTMLFileSystem.Open called with any name over any served directory.
InitOpen ==
  /\ ServerInit
  /\ RenderIdle
  /\ ParseIdle
  /\ BuildIdle
  /\ httpDir \in [DirPaths -> OpenOutcomes]
  /\ reqName \in OpenNames
  /\ opc = "call"
  /\ opened = <<>>
  /\ openErr = "nil"

NextOpen ==
  \/ OpenExact
  \/ OpenFallback

SpecOpen == InitOpen /\ [][NextOpen]_vars

\* ----------------------------------------------------------------- helpers

Range(q) == { q[k] : k \in DOMAIN q }

IsPrefix(p, q) == Len(p) <= Len(q) /\ \A k \in DOMAIN p : p[k] = q[k]

\* The client whose channel the loop is sending on (0: none).
SendingTo == IF bpc = "send" /\ cur \in DOMAIN subscribers THEN subscribers[cur] ELSE 0

Registered(c) == hid[c] \in DOMAIN subscribers

\* A line that is the front matter delimiter once blanks around it are
\* trimmed.
IsDelimiterLine(line) == line \in {"---", " --- "}

\* The bytes of lines that each end with a newline.
RECURSIVE TerminatedLines(_)
TerminatedLines(ls) ==
  IF ls = <<>> THEN <<>>
  ELSE LineBytes(Head(ls)) \o <<"\n">> \o TerminatedLines(Tail(ls))

\* The bytes of lines with a newline between each two of them.
RECURSIVE JoinedLines(_)
JoinedLines(ls) ==
  IF ls = <<>> THEN <<>>
  ELSE IF Len(ls) = 1 THEN LineBytes(Head(ls))
  ELSE LineBytes(Head(ls)) \o <<"\n">> \o JoinedLines(Tail(ls))

\* The layout chain that starts at layout name n, given the layouts seen
\* before it: the names in the order they are reached, and how the chain
\* ends: at a template without a layout key ("nil"), at a name that is not in
\* site.layouts ("missing") or at a name already seen ("cycle").
RECURSIVE Walk(_, _)
Walk(n, seen) ==
  IF n = NoLayout THEN [names |-> seen, end |-> "nil", at |-> n]
  ELSE IF n \notin DOMAIN layouts THEN [names |-> seen, end |-> "missing", at |-> n]
  ELSE IF n \in Range(seen) THEN [names |-> seen, end |-> "cycle", at |-> n]
  ELSE Walk(layouts[n].Metadata.layout, Append(seen, n))

\* The layout chain of the template render is called with.
LayoutChain == Walk(templ.Metadata.layout, <<>>)

\* The first k layouts of the chain all render without an error.
ChainOk(k) == \A i \in 1 .. k : layouts[LayoutChain.names[i]].ok

\* The content after the template and the first k layouts of its chain were
\* rendered: the template's own rendering, then one rendering per layout, from
\* the template's parent outwards, each with "layout" bound to that layout's
\* metadata and "content" to all that precedes it.
ContentAfter(k) ==
  <<[by |-> 0, body |-> templ.liquidTemplate, layout |-> NoBinding]>> \o
  [i \in 1 .. k |-> [by |-> LayoutChain.names[i],
                     body |-> layouts[LayoutChain.names[i]].liquidTemplate,
                     layout |-> layouts[LayoutChain.names[i]].Metadata]]

\* A source file Parse finds no template in: its first line is not the front
\* matter delimiter.
StaticFile(lines) == lines = <<>> \/ ~IsDelimiterLine(lines[1])

\* The target path a source file is to come out at: its own path, with .md
\* and .org replaced by .html when the file is a template.
ExpectedPath(k) ==
  IF StaticFile(src[k]) THEN Entries[k].path
  ELSE [Entries[k].path EXCEPT !.ext = IF @ \in {".md", ".org"} THEN ".html" ELSE @]

\* What a source file is to come out as: its own bytes, or the rendering of
\* its body followed by one rendering per layout of its chain.
ExpectedData(k) ==
  IF StaticFile(src[k]) THEN Copied(src[k])
  ELSE LET p == Parse(src[k])
           c == Walk(p.Metadata.layout, <<>>)
       IN  Rendered(<<[by |-> 0, body |-> p.liquidContent, layout |-> NoBinding]>> \o
                    [i \in 1 .. Len(c.names) |->
                       [by |-> c.names[i],
                        body |-> layouts[c.names[i]].liquidTemplate,
                        layout |-> layouts[c.names[i]].Metadata]])

\* The target tree the source tree determines: the root and one directory per
\* source directory, one file per target path, holding what the last source
\* file of the walk that comes out at that path comes out as.
ExpectedTarget ==
  LET paths == { ExpectedPath(k) : k \in DOMAIN src }
      last(q) == CHOOSE k \in DOMAIN src :
                   /\ ExpectedPath(k) = q
                   /\ \A j \in DOMAIN src : ExpectedPath(j) = q => j <= k
  IN  [dirs |-> {"."} \cup { Entries[k].path.dir : k \in DOMAIN src },
       files |-> [q \in paths |-> ExpectedData(last(q))]]

\* ------------------------------------------------------------------ claims

\* C1: a handler that calls unsubscribe(id) while the loop is in the middle
\* of a delivery does not deadlock the broker: the call never leads to the
\* state in which the handler waits in unsubscribe for the loop while the loop
\* waits in its send on that handler's channel (neither can move again, and
\* the loop serves no later subscribe, unsubscribe or publish).
C1_UnsubscribeNeverDeadlocks ==
  [][\A c \in Clients :
       (bpc = "send" /\ hpc[c] = "select" /\ hpc'[c] = "unsubscribe") =>
         ~(SendingTo' = c)]_vars

\* C2: at every moment at most one execution of rebuildSite is in flight.
C2_AtMostOneRebuildInFlight == Cardinality(InFlight) <= 1

C4_FailedRebuildPublishesNothing ==
  /\ \A r \in DOMAIN rebuilds :
       rebuilds[r].failedAt # "" =>
         /\ Stmt(rebuilds[r]) = "return"
         /\ "publish" \notin Range(rebuilds[r].steps)
         /\ r \notin Range(accepted)
  /\ \A c \in Clients : \A k \in DOMAIN received[c] :
       LET rb == rebuilds[received[c][k]]
       IN rb.failedAt = "" /\ rb.wrote = Files
          /\ IsPrefix(<<"addAll", "load", "build">>, rb.steps)

\* One rebuild failed in its build and a handler has received the event of
\* another.
C4_Witness ==
  /\ \E r \in DOMAIN rebuilds : rebuilds[r].failedAt = "build"
  /\ \E c \in Clients : received[c] # <<>>

C6_FanOut ==
  /\ \A c \in Clients : sentOn[c] <= 1
  /\ \A c \in Clients : sentOn[c] = 1 => c \in Range(acceptSubs)
  /\ bpc = "send" =>
       { c \in Clients : sentOn[c] = 1 } = { acceptSubs[i] : i \in DOMAIN acceptSubs \ toVisit }
  /\ (bpc = "select" /\ accepted # <<>>) =>
       \A c \in Range(acceptSubs) : sentOn[c] = 1

\* An event accepted with two subscriptions registered has been sent to both.
C6_Witness ==
  /\ bpc = "select"
  /\ Cardinality(DOMAIN acceptSubs) = 2
  /\ \A c \in Range(acceptSubs) : sentOn[c] = 1

\* C7: delivery order.  What a handler has received is a stretch of the
\* accepted events, in the order of acceptance and without gaps, from its
\* registration on; and when the loop is at its select, of two registered
\* handlers the later one has received what the earlier one received since.
C7_DeliveryOrder ==
  /\ \A c \in Clients :
       received[c] = SubSeq(accepted, regEpoch[c] + 1, regEpoch[c] + Len(received[c]))
  /\ \A c, d \in Clients :
       (bpc = "select" /\ Registered(c) /\ Registered(d) /\ regEpoch[c] <= regEpoch[d]) =>
         received[d] = SubSeq(received[c], regEpoch[d] - regEpoch[c] + 1, Len(received[c]))

\* Two handlers have both received the same two events.
C7_Witness ==
  \E c, d \in Clients :
    c # d /\ Len(received[c]) = 2 /\ received[c] = received[d]

\* C8: after a client's context is cancelled its handler eventually returns
\* (which it does when the loop has removed its subscription and closed its
\* channel).
C8_CancelledHandlerReturns ==
  \A c \in Clients : ctxDone[c] ~> (hpc[c] = "done" /\ ~Registered(c))

\* C9 as stated: load and build, then the watches, then the publication.
C9_WatchesAfterBuild ==
  \A r \in DOMAIN rebuilds :
    IsPrefix(rebuilds[r].steps, <<"load", "build", "addAll", "publish">>)

\* C9 (amended): in every rebuild the watches are re-registered first, then
\* the Site is loaded, then the target is built, then the notification is
\* published.
C9_RebuildOrder ==
  \A r \in DOMAIN rebuilds :
    IsPrefix(rebuilds[r].steps, <<"addAll", "load", "build", "publish">>)

\* A rebuild has gone through all four steps.
C9_Witness ==
  \E r \in DOMAIN rebuilds : Len(rebuilds[r].steps) = 4

\* C10 as stated: subscribe() never waits; whenever a handler is inside it,
\* the loop is ready to take its message.
C10_SubscribeNeverWaits ==
  \A c \in Clients : hpc[c] = "subscribe" => ENABLED BrokerSubscribe(c)

\* C10 (amended): subscribe() returns only in a step of the loop at its
\* select, which registers the channel; while the loop is inside the range
\* loop of a delivery no subscribe() returns.
C10_SubscribeWaitsForLoop ==
  [][\A c \in Clients :
       (hpc[c] = "subscribe" /\ hpc'[c] # "subscribe") =>
         (bpc = "select" /\ hpc'[c] = "select" /\ hid[c] \in DOMAIN subscribers')]_vars

\* A handler waits inside subscribe() while the loop is sending to a handler
\* that is still writing the previous event to its client.
C10_Witness ==
  \E c, d \in Clients :
    hpc[c] = "subscribe" /\ SendingTo = d /\ hpc[d] = "write"

\* C11: an error while adding a watch, at the watcher's setup or in a rebuild,
\* is only logged: Serve.Run never returns because of it (the server goes on
\* to serve, the consumer goroutine and the timer stay alive).
C11_WatchErrorsOnlyLogged == srv # "exited" /\ runErr = ""

\* C12: an event re-arms the timer if and only if it is not a chmod-only
\* event.  In a step in which the consumer receives an event (one that differs
\* from the event before it), a chmod-only event leaves the timer as it is and
\* any other event, also one that carries the chmod flag besides a create,
\* write, remove or rename, leaves it armed with the full delay.
C12_TimerArmedIffNotChmodOnly ==
  [][event' # event =>
       IF event' = {"Chmod"}
       THEN rebuildAfter' = rebuildAfter
       ELSE rebuildAfter' = [armed |-> TRUE, left |-> Delay]]_vars

\* C13: rendering a template whose layout chain is cyclic (every template of
\* it renders without an error) terminates with a layout-cycle error.
C13_CyclicChainFails ==
  (rpc = "start" /\ LayoutChain.end = "cycle" /\ templ.ok
     /\ ChainOk(Len(LayoutChain.names)))
  ~> (rpc = "done" /\ rerr.kind = "layout cycle")

\* C14: for a template whose layout chain is acyclic, with N layouts that are
\* all in site.layouts, render never makes more than N substitutions; while
\* it runs without an error, the content after k substitutions is the
\* template's rendering wrapped by the first k layouts of the chain, parent
\* first, each rendered with the content before it and its own metadata; and
\* it returns after exactly N substitutions with that content, or, when a
\* layout's rendering fails, right after that substitution with its error.
C14_AcyclicChainSubstitutions ==
  LET N == Len(LayoutChain.names) IN
  (LayoutChain.end = "nil" /\ templ.ok /\ rpc \in {"loop", "found", "done"}) =>
    /\ nSubst <= N
    /\ rerr = NoErr => content = ContentAfter(nSubst)
    /\ rerr = NoErr /\ rpc \in {"loop", "found"} =>
         layout = (IF nSubst < N THEN LayoutChain.names[nSubst + 1] ELSE NoLayout)
    /\ rpc = "done" =>
         IF ChainOk(N)
         THEN rerr = NoErr /\ nSubst = N
         ELSE /\ nSubst >= 1 /\ ChainOk(nSubst - 1)
              /\ rerr = RenderError(LayoutChain.names[nSubst])
              /\ content = <<>>

\* A chain of as many layouts as there are names has been rendered through.
C14_Witness ==
  /\ rpc = "done" /\ rerr = NoErr
  /\ LayoutChain.end = "nil" /\ Len(LayoutChain.names) = NLayouts
  /\ nSubst = NLayouts /\ content = ContentAfter(NLayouts)

\* C15: when a layout named in a template's chain is not in site.layouts,
\* render returns a layout-not-found error that names that layout and no
\* content; buildTarget returns that error at once, and the step that returns
\* it writes nothing: the target tree is left as it was and no write is
\* recorded for that template.
C15_MissingLayoutAbortsBuild ==
  /\ [](/\ (rpc = "done" /\ LayoutChain.end = "missing"
                         /\ ChainOk(Len(LayoutChain.names)))
           => (rerr = LayoutNotFound(LayoutChain.at) /\ content = <<>>)
        /\ (tpc = "done" /\ buildErr.kind = "layout not found")
           => /\ LayoutChain.end = "missing"
              /\ buildErr = LayoutNotFound(LayoutChain.at)
              /\ \A i \in DOMAIN written : written[i].entry # walk)
  /\ [][(tpc = "render" /\ rpc = "done" /\ rerr.kind = "layout not found")
        => (tpc' = "done" /\ buildErr' = rerr /\ targetDir' = targetDir
                          /\ written' = written)]_vars

\* C15 witness: a build ended with the error that names the missing layout 2,
\* reached through layout 1, after files had been written to the target.
C15_Witness ==
  /\ tpc = "done"
  /\ buildErr = LayoutNotFound(2)
  /\ LayoutChain.names = <<1>>
  /\ written # <<>>

\* C16: after a build that succeeds the target tree is the one the source
\* tree determines, whatever the target directory held before, and a second
\* build of the unchanged source tree leaves the same target tree.
C16_TargetDeterminedBySource ==
  (tpc = "done" /\ buildErr = NoErr)
  => /\ targetDir = ExpectedTarget
     /\ nBuilds = 2 => targetDir = firstTarget

\* C16 witness: the second build of a source tree succeeded over a first one
\* that had begun with a stale file in a stale directory; the target holds
\* two files or more and a subdirectory.
C16_Witness ==
  /\ tpc = "done"
  /\ buildErr = NoErr
  /\ nBuilds = 2
  /\ "old" \in prior.dirs
  /\ Path("old", "z", ".html") \in DOMAIN prior.files
  /\ "sub" \in targetDir.dirs
  /\ Cardinality(DOMAIN targetDir.files) >= 2

\* C17: no two source files of one build are written at the same target path.
C17_TargetPathsOneToOne ==
  \A i, j \in DOMAIN written : i # j => written[i].path # written[j].path

\* C18: a source file whose first line is not the front matter delimiter is
\* written at its own relative path, extension unchanged, with its own bytes;
\* a build that succeeds has written every such file exactly once.
C18_StaticFilesCopied ==
  /\ \A i \in DOMAIN written :
       StaticFile(src[written[i].entry])
       => /\ written[i].path = Entries[written[i].entry].path
          /\ written[i].data = Copied(src[written[i].entry])
  /\ (tpc = "done" /\ buildErr = NoErr)
     => \A k \in DOMAIN src :
          StaticFile(src[k])
          => Cardinality({ i \in DOMAIN written : written[i].entry = k }) = 1

\* C18 witness: a build succeeded and the target holds a.md, a static file
\* with a template extension, and sub/b.css, each with the bytes of its source.
C18_Witness ==
  /\ tpc = "done"
  /\ buildErr = NoErr
  /\ {3, 6} \subseteq DOMAIN src
  /\ src[3] = <<"----">>
  /\ Path(".", "a", ".md") \in DOMAIN targetDir.files
  /\ targetDir.files[Path(".", "a", ".md")] = Copied(<<"----">>)
  /\ Path("sub", "b", ".css") \in DOMAIN targetDir.files
  /\ targetDir.files[Path("sub", "b", ".css")] = Copied(src[6])

\* C19: Parse classifies a file by its lines.  A file whose first line is
\* not the delimiter (trimmed of blanks), or that has no line, is no template
\* and no error.  Otherwise, with no delimiter line after the first, Parse
\* fails with the front-matter-not-closed error.  Otherwise the lines between
\* the first line and the first delimiter line after it are the metadata
\* source and all the lines after that one, delimiter lines included, are the
\* body: Parse returns a template with them, unless the metadata source is
\* not yaml or the body is not liquid, which it reports as errors.
C19_ParseClassifies ==
  ppc = "done" =>
    IF file = <<>> \/ ~IsDelimiterLine(file[1])
    THEN parsed = NoTemplate
    ELSE LET closing == { k \in 2 .. Len(file) : IsDelimiterLine(file[k]) } IN
         IF closing = {}
         THEN parsed = ParseFails("front matter not closed")
         ELSE LET k == CHOOSE c \in closing : \A d \in closing : c <= d
                  meta == TerminatedLines(SubSeq(file, 2, k - 1))
                  body == JoinedLines(SubSeq(file, k + 1, Len(file)))
              IN IF YamlError(meta) THEN parsed = ParseFails("invalid yaml format")
                 ELSE IF LiquidError(body) THEN parsed = ParseFails("liquid")
                 ELSE /\ parsed.templ /\ parsed.err = ""
                      /\ parsed.yamlContent = meta
                      /\ parsed.liquidContent = body

\* A template was parsed from a file that opens with a delimiter line with
\* blanks, has a metadata line, and has a delimiter line in its body.
C19_Witness ==
  /\ ppc = "done" /\ parsed.templ
  /\ file[1] = " --- "
  /\ parsed.Metadata.layout = 1
  /\ \E k \in DOMAIN parsed.liquidContent : parsed.liquidContent[k] = "---"

\* C20: HTMLFileSystem.Open(name) returns the file at name when there is one;
\* when there is none at name but one at name + ".html", it returns that one;
\* when there is none at either, or the one at name + ".html" cannot be
\* opened, it returns the not-found error of name.  An error other than
\* not-found at name is returned as it is and the fallback is not tried.
C20_OpenHidesHtmlSuffix ==
  /\ (opc = "done" /\ httpDir[reqName] = "file")
     => (opened = reqName /\ openErr = "nil")
  /\ (opc = "done" /\ httpDir[reqName] = "not exist"
                   /\ httpDir[WithHtml(reqName)] = "file")
     => (opened = WithHtml(reqName) /\ openErr = "nil")
  /\ (opc = "done" /\ httpDir[reqName] = "not exist"
                   /\ httpDir[WithHtml(reqName)] # "file")
     => (opened = <<>> /\ openErr = "not exist")
  /\ (opc = "done" /\ httpDir[reqName] = "permission")
     => (opened = <<>> /\ openErr = "permission")
  /\ httpDir[reqName] # "not exist" => opc # "fallback"

\* C20 witness: Open("post") returned post.html, there being no file post.
C20_Witness ==
  /\ opc = "done"
  /\ reqName = <<"post">>
  /\ httpDir[<<"post">>] = "not exist"
  /\ opened = <<"post", ".html">>
  /\ openErr = "nil"

\* C21: the subscribers registry changes only in a step of the broker loop
\* that takes a subscribe or an unsubscribe message at its select, and by
\* that message's entry alone; a handler's or the watcher's call only offers
\* its message; while the loop handles a publish message it takes no other
\* message and leaves the registry as it is.
C21_RegistrySingleWriter ==
  [][/\ subscribers' # subscribers =>
          /\ bpc = "select" /\ bpc' = "select"
          /\ accepted' = accepted
          /\ \E c \in Clients :
               /\ \A d \in Clients \ {c} : hpc'[d] = hpc[d]
               /\ \/ /\ hpc[c] = "subscribe" /\ hpc'[c] = "select"
                     /\ subscribers' = (hid[c] :> c) @@ subscribers
                  \/ /\ hpc[c] = "unsubscribe" /\ hpc'[c] = "done"
                     /\ subscribers' =
                          [i \in DOMAIN subscribers \ {hid[c]} |-> subscribers[i]]
     /\ (bpc = "send" \/ accepted' # accepted) =>
          /\ subscribers' = subscribers
          /\ \A c \in Clients :
               hpc[c] \in {"subscribe", "unsubscribe"} => hpc'[c] = hpc[c]
     /\ bpc = "send" => accepted' = accepted
     /\ \A c \in Clients :
          (hpc'[c] # hpc[c] /\ hpc'[c] \in {"subscribe", "unsubscribe"})
          => (subscribers' = subscribers /\ bpc' = bpc)]_vars

\* C21 witness: the loop is delivering an event to a registered handler
\* while another handler's subscribe message waits to be taken.
C21_Witness ==
  /\ bpc = "send"
  /\ subscribers # <<>>
  /\ \E c \in Clients : hpc[c] = "subscribe" /\ hid[c] \notin DOMAIN subscribers

\* C22: while the server runs, after an event that is not a bare Chmod a
\* rebuild is eventually started, whatever the rebuilds before it are doing.
C22_NoEventLost == (unbuilt /\ srv = "serving") ~> ~unbuilt

\* C23: the loop never panics on a close; no registered channel is closed,
\* and the channel the loop is sending on is registered; a handler whose
\* unsubscribe message waits is still registered, and a channel is closed
\* exactly when its handler's unsubscribe was taken; the step that closes a
\* channel removes its id from the registry.
C23_CloseAndSendSafe ==
  /\ [](/\ bpc # "panic"
        /\ \A i \in DOMAIN subscribers : subscribers[i] \notin closed
        /\ bpc = "send" => cur \in DOMAIN subscribers
        /\ \A c \in Clients :
             /\ hpc[c] = "unsubscribe" => Registered(c) /\ subscribers[hid[c]] = c
             /\ c \in closed <=> hpc[c] = "done")
  /\ [][\A c \in closed' \ closed :
          /\ Registered(c) /\ subscribers[hid[c]] = c
          /\ hid[c] \notin DOMAIN subscribers']_vars

\* C23 witness: one handler's channel was closed and removed after an event
\* had been accepted, while another handler is still registered.
C23_Witness ==
  /\ closed # {}
  /\ accepted # <<>>
  /\ \E c \in Clients : Registered(c) /\ hpc[c] = "select"

====
